---- MODULE Spec2Model ----
(***************************************************************************)
(* A model of the typed attribute container of @all/attributes:            *)
(*   - AttributeKey (src/attributes/attribute_key.ts): frozen key objects,  *)
(*     each construction allocating a new object holding a new symbol;      *)
(*   - Attributes (src/attributes/attributes.ts): a wrapper around one      *)
(*     private Map<AttributeKey, unknown>.                                  *)
(* A Map is modelled as the sequence of its entries in insertion order, a   *)
(* key object by its reference (its index in the heap `keys`), a string by  *)
(* a TLA+ string, `undefined` as a stored value by Undefined, an error      *)
(* message by the sequence of the fragments its template literal joins.    *)
(***************************************************************************)
EXTENDS Integers, Sequences, FiniteSets, TLC

\* ------------------------------------------------------------------ bounds
\* How many AttributeKey objects a behaviour constructs.
MaxTokens == 2
\* Stored values are Undefined and the defined values 1..MaxVal.
MaxVal == 2
\* How many times the supplier functions are invoked in a behaviour.
MaxCalls == 2
\* How many iterators entries(), keys() and values() hand out in a behaviour.
MaxIters == 2
\* How many classes there are besides Object.
MaxClasses == 3

\* The names given to keys.
Names == {"x", "y"}

\* `undefined` as a value stored in, or read from, the map.
Undefined == 0
Values == Undefined..MaxVal

VARIABLES
  keys,      \* the heap of constructed AttributeKey objects; a reference is an index
  attrs,     \* attrs[s]: the #map of the Attributes instance s
  last,      \* the most recent call: what was called, with what, and its outcome
  passed,    \* passed[s]: the references handed to some method of instance s so far
  invoked,   \* invoked[k]: supplier invocations for k since k was last deleted or cleared
  supplied,  \* supplied[k]: what the latest returning one of those invocations returned
  disturbed, \* disturbed[k]: since then, set(k, _) was called or a supplier threw
  removed,   \* removed[s][k]: the position delete(k) last removed k from in s, 0 if none
  each,      \* the forEach call in progress, if any: its loop and its callback
  iters,     \* the iterators entries(), keys(), values() returned since #map last changed
  types,     \* the classes superclassesOfType is asked about
  walk       \* the most recent superclassesOfType call and its result

vars ==
  <<keys, attrs, last, passed, invoked, supplied, disturbed, removed, each, iters, types, walk>>

\* ------------------------------------------------------- JavaScript values
JsUndefined == [t |-> "undefined", v |-> ""]
JsFunction == [t |-> "function", v |-> ""]
JsString(str) == [t |-> "string", v |-> str]
TypeOf(a) == a.t
\* ToBoolean of a string-or-undefined: undefined and "" are falsy.
Truthy(a) == a.t = "string" /\ a.v # ""

\* What a caller may pass as arg1 / arg2 of AttributeKey.
JsArgs == {JsUndefined, JsFunction} \cup {JsString(n) : n \in Names \cup {""}}

\* --------------------------------------------------------------- the heap
Refs == 1..Len(keys)

\* attribute_key.ts 85-96: the two-names check and the choice of the name.
AttributeKeyThrows(arg1, arg2) ==
  TypeOf(arg1) = "string" /\ TypeOf(arg2) = "string"

AttributeKeyNameFirstOnly(arg1, arg2) ==
  IF TypeOf(arg1) = "string" THEN arg1 ELSE JsUndefined
AttributeKeyName(arg1, arg2) ==
  IF TypeOf(arg1) = "string" THEN arg1
  ELSE IF TypeOf(arg2) = "string" THEN arg2
  ELSE JsUndefined

\* attribute_key.ts 98-120: a new object with a new symbol and the name.
\* The symbol of the n-th object constructed is the n-th symbol created.
NewKeyObject(heap, arg1, arg2) ==
  [symbol |-> Len(heap) + 1, name |-> AttributeKeyName(arg1, arg2)]

KeyName(k) == keys[k].name
HasName(k) == KeyName(k) # JsUndefined

\* ---------------------------------------------------------- the host's Map
\* Key equality of Map<AttributeKey, _>: SameValueZero on object references.
SameValueZeroByName(a, b) == keys[a].name = keys[b].name
SameValueZero(a, b) == a = b

EmptyMap == <<>>

MapIndex(m, k) ==
  IF \E i \in DOMAIN m : SameValueZero(m[i].key, k)
  THEN CHOOSE i \in DOMAIN m :
         /\ SameValueZero(m[i].key, k)
         /\ \A j \in DOMAIN m : SameValueZero(m[j].key, k) => i <= j
  ELSE 0

MapHasDefined(m, k) == MapIndex(m, k) # 0 /\ m[MapIndex(m, k)].value # Undefined
MapHas(m, k) == MapIndex(m, k) # 0

MapGet(m, k) == IF MapHas(m, k) THEN m[MapIndex(m, k)].value ELSE Undefined

MapSetAppendAlways(m, k, v) == Append(m, [key |-> k, value |-> v])
MapSetMoveToEnd(m, k, v) ==
  Append(SelectSeq(m, LAMBDA e : ~SameValueZero(e.key, k)), [key |-> k, value |-> v])
MapSet(m, k, v) ==
  IF MapHas(m, k)
  THEN [m EXCEPT ![MapIndex(m, k)] = [key |-> m[MapIndex(m, k)].key, value |-> v]]
  ELSE Append(m, [key |-> k, value |-> v])

MapRemoveAtSwap(m, i) ==
  IF i = Len(m) THEN SubSeq(m, 1, Len(m) - 1)
  ELSE [SubSeq(m, 1, Len(m) - 1) EXCEPT ![i] = m[Len(m)]]
MapRemoveAt(m, i) == SubSeq(m, 1, i - 1) \o SubSeq(m, i + 1, Len(m))

MapDelete(m, k) ==
  IF MapHas(m, k)
  THEN [map |-> MapRemoveAt(m, MapIndex(m, k)), ret |-> TRUE]
  ELSE [map |-> m, ret |-> FALSE]

MapSize(m) == Len(m)

MapKeys(m) == [i \in DOMAIN m |-> m[i].key]

\* ------------------------------------------------ the host's Map iterators
\* An iterator over a Map is live: it holds how many of the entries now in the
\* map it has passed, and whether it has ended; once ended it stays ended.
MapIterator(kind) == [kind |-> kind, pos |-> 0, done |-> FALSE]

\* What it yields for an entry: [key, value], the key, or the value.
IterItemKeysTwice(kind, e) ==
  IF kind = "entries" THEN <<e.key, e.value>> ELSE <<e.key>>
IterItem(kind, e) ==
  CASE kind = "entries" -> <<e.key, e.value>>
    [] kind = "keys" -> <<e.key>>
    [] kind = "values" -> <<e.value>>

\* next(): the iterator afterwards and the result { value, done }.
IterNextStuck(m, it) ==
  IF it.done \/ it.pos >= Len(m)
  THEN [it |-> [it EXCEPT !.done = TRUE], done |-> TRUE, item |-> <<>>]
  ELSE [it |-> it, done |-> FALSE, item |-> IterItem(it.kind, m[it.pos + 1])]
IterNext(m, it) ==
  IF it.done \/ it.pos >= Len(m)
  THEN [it |-> [it EXCEPT !.done = TRUE], done |-> TRUE, item |-> <<>>]
  ELSE [it |-> [it EXCEPT !.pos = it.pos + 1], done |-> FALSE,
        item |-> IterItem(it.kind, m[it.pos + 1])]

\* What the removal of entry i (0: none was removed), or of all entries, does
\* to an iterator over the map: the entries it has passed are fewer.
IterOnDelete(it, i) ==
  IF i # 0 /\ i <= it.pos THEN [it EXCEPT !.pos = it.pos - 1] ELSE it
IterOnClear(it) == [it EXCEPT !.pos = 0]

\* ------------------------------------------------ what a call hands back
\* One shape for every outcome: t says which of the fields carries it.
Outcome(t, val, flag, msg, obj, list) ==
  [t |-> t, val |-> val, flag |-> flag, msg |-> msg, obj |-> obj, list |-> list]
RetVoid == Outcome("void", Undefined, FALSE, <<>>, <<>>, <<>>)
RetValue(v) == Outcome("value", v, FALSE, <<>>, <<>>, <<>>)
RetBoolean(b) == Outcome("boolean", Undefined, b, <<>>, <<>>, <<>>)
RetNumber(n) == Outcome("number", n, FALSE, <<>>, <<>>, <<>>)
RetObject(o) == Outcome("object", Undefined, FALSE, <<>>, o, <<>>)
RetList(l) == Outcome("list", Undefined, FALSE, <<>>, <<>>, l)
Throw(msg) == Outcome("throw", Undefined, FALSE, msg, <<>>, <<>>)
\* An iterator result { value: item, done }.
RetResult(done, item) == Outcome("result", Undefined, done, <<>>, <<>>, item)

\* A method's effect: the map afterwards, the outcome, the supplier invocations made.
Effect(m, ret, calls) == [map |-> m, ret |-> ret, calls |-> calls]

\* --------------------------------------------------------------- suppliers
\* The `value` callback of getOrInsertComputed: it returns a value or throws.
Suppliers ==
  {[kind |-> "returns", v |-> v] : v \in Values} \cup {[kind |-> "throws", v |-> Undefined]}
SupplierError == <<"supplier failed">>

\* Suppliers that, before they return v or throw, call a method of the store
\* they are computing for, on the key they are computing: set(k, w), delete(k)
\* or clear().
ReentrantSuppliers ==
  {[kind |-> c, v |-> v, w |-> w] :
     c \in {"sets", "deletes", "clears", "setsThrows"}, v \in Values, w \in Values}
SupplierThrows(f) == f.kind \in {"throws", "setsThrows"}

\* ------------------------------------------------------------- Attributes
\* attributes.ts 11-13
AttrClearKeeping(m) == Effect(m, RetVoid, 0)
AttrClear(m) == Effect(EmptyMap, RetVoid, 0)

\* attributes.ts 22-24
AttrDelete(m, k) == Effect(MapDelete(m, k).map, RetBoolean(MapDelete(m, k).ret), 0)

\* attributes.ts 91-93
AttrGet(m, k) == Effect(m, RetValue(MapGet(m, k)), 0)

\* attributes.ts 105-107: `Attribute with key${key.name ? ` "${key.name}"` : ""} not found`
NotFoundMessageUnnamed(k) == <<"Attribute with key", "", " not found">>
NotFoundMessage(k) ==
  <<"Attribute with key">>
    \o (IF Truthy(KeyName(k)) THEN <<" \"", KeyName(k).v, "\"">> ELSE <<"">>)
    \o <<" not found">>

\* attributes.ts 103-110
AttrGetOrThrow(m, k) ==
  IF ~MapHas(m, k)
  THEN Effect(m, Throw(NotFoundMessage(k)), 0)
  ELSE Effect(m, RetValue(MapGet(m, k)), 0)

\* attributes.ts 125-133
AttrGetOrDefaultStoring(m, k, defaultValue) ==
  IF ~MapHas(m, k)
  THEN Effect(MapSet(m, k, defaultValue), RetValue(defaultValue), 0)
  ELSE Effect(m, RetValue(MapGet(m, k)), 0)
AttrGetOrDefault(m, k, defaultValue) ==
  IF ~MapHas(m, k)
  THEN Effect(m, RetValue(defaultValue), 0)
  ELSE Effect(m, RetValue(MapGet(m, k)), 0)

\* attributes.ts 146-155
AttrGetOrInsertNotStoring(m, k, value) ==
  IF ~MapHas(m, k)
  THEN Effect(m, RetValue(value), 0)
  ELSE Effect(m, RetValue(MapGet(m, k)), 0)
AttrGetOrInsert(m, k, value) ==
  IF ~MapHas(m, k)
  THEN Effect(MapSet(m, k, value), RetValue(value), 0)
  ELSE Effect(m, RetValue(MapGet(m, k)), 0)

\* attributes.ts 169-179: on a miss `value()` runs first; if it throws, the
\* exception leaves the method before `this.#map.set`.
AttrGetOrInsertComputedEager(m, k, value) ==
  IF value.kind = "throws"
  THEN Effect(m, Throw(SupplierError), 1)
  ELSE IF ~MapHas(m, k)
  THEN Effect(MapSet(m, k, value.v), RetValue(value.v), 1)
  ELSE Effect(m, RetValue(MapGet(m, k)), 1)
\* The map as the invocation `value()` of line 174 leaves it: what the set,
\* delete or clear the supplier calls does to #map.
SupplierRun(m, k, f) ==
  CASE f.kind \in {"sets", "setsThrows"} -> MapSet(m, k, f.w)
    [] f.kind = "deletes" -> MapDelete(m, k).map
    [] f.kind = "clears" -> EmptyMap
    [] OTHER -> m

AttrGetOrInsertComputedIfStillAbsent(m, k, value) ==
  IF ~MapHas(m, k)
  THEN IF SupplierThrows(value)
       THEN Effect(SupplierRun(m, k, value), Throw(SupplierError), 1)
       ELSE IF MapHas(SupplierRun(m, k, value), k)
       THEN Effect(SupplierRun(m, k, value), RetValue(value.v), 1)
       ELSE Effect(MapSet(SupplierRun(m, k, value), k, value.v), RetValue(value.v), 1)
  ELSE Effect(m, RetValue(MapGet(m, k)), 0)
AttrGetOrInsertComputed(m, k, value) ==
  IF ~MapHas(m, k)
  THEN IF SupplierThrows(value)
       THEN Effect(SupplierRun(m, k, value), Throw(SupplierError), 1)
       ELSE Effect(MapSet(SupplierRun(m, k, value), k, value.v), RetValue(value.v), 1)
  ELSE Effect(m, RetValue(MapGet(m, k)), 0)

\* attributes.ts 189-191
AttrHas(m, k) == Effect(m, RetBoolean(MapHas(m, k)), 0)

\* attributes.ts 200-202: the keys the iterator yields when drained at once.
AttrKeys(m) == Effect(m, RetList(MapKeys(m)), 0)

\* attributes.ts 210-212
AttrSetAtFront(m, k, value) ==
  Effect(IF MapHas(m, k) \/ m = EmptyMap THEN MapSet(m, k, value)
         ELSE <<[key |-> k, value |-> value]>> \o m, RetVoid, 0)
AttrSet(m, k, value) == Effect(MapSet(m, k, value), RetVoid, 0)

\* attributes.ts 237-239
AttrSize(m) == Effect(m, RetNumber(MapSize(m)), 0)

\* `obj[name] = value` on a plain object: an existing property keeps its place.
ObjIndex(obj, name) ==
  IF \E i \in DOMAIN obj : obj[i].name = name
  THEN CHOOSE i \in DOMAIN obj : obj[i].name = name
  ELSE 0
ObjHas(obj, name) == ObjIndex(obj, name) # 0
ObjGet(obj, name) == obj[ObjIndex(obj, name)].value
ObjAssign(obj, name, value) ==
  IF ObjHas(obj, name)
  THEN [obj EXCEPT ![ObjIndex(obj, name)] = [name |-> name, value |-> value]]
  ELSE Append(obj, [name |-> name, value |-> value])
ObjFields(obj) == {obj[i].name : i \in DOMAIN obj}

\* attributes.ts 255-258: the loop of toJSON from entry i on.
RECURSIVE ToJSONLoopFirstWins(_, _, _)
ToJSONLoopFirstWins(m, i, obj) ==
  IF i > Len(m) THEN obj
  ELSE IF keys[m[i].key].name = JsUndefined \/ ObjHas(obj, keys[m[i].key].name.v)
  THEN ToJSONLoopFirstWins(m, i + 1, obj)
  ELSE ToJSONLoopFirstWins(m, i + 1, ObjAssign(obj, keys[m[i].key].name.v, m[i].value))
RECURSIVE ToJSONLoop(_, _, _)
ToJSONLoop(m, i, obj) ==
  IF i > Len(m) THEN obj
  ELSE IF keys[m[i].key].name = JsUndefined
  THEN ToJSONLoop(m, i + 1, obj)
  ELSE ToJSONLoop(m, i + 1, ObjAssign(obj, keys[m[i].key].name.v, m[i].value))

\* attributes.ts 253-260
AttrToJSON(m) == Effect(m, RetObject(ToJSONLoop(m, 1, <<>>)), 0)

\* ---------------------------------------------------------------- actions
Stores == DOMAIN attrs

\* The record of a call: k is 0, arg Undefined, fn "none" where the method takes none.
\* had: whether k was present when the call began;
\* again: the call before was the same method on the same instance and key.
Called(op, s, k, arg, fn, e) ==
  [op |-> op, store |-> s, key |-> k, arg |-> arg, fn |-> fn,
   ret |-> e.ret, calls |-> e.calls,
   had |-> IF k = 0 THEN FALSE ELSE MapHas(attrs[s], k),
   again |-> last.op = op /\ last.store = s /\ last.key = k]

\* A call of a method of instance s whose effect is e: `#map` is a field of
\* the instance, so the maps of the other instances stay as they are.
CallOnSharedMap(op, s, k, arg, fn, e) ==
  /\ attrs' = [t \in DOMAIN attrs |-> e.map]
  /\ last' = Called(op, s, k, arg, fn, e)
  /\ UNCHANGED keys
Call(op, s, k, arg, fn, e) ==
  /\ attrs' = [attrs EXCEPT ![s] = e.map]
  /\ last' = Called(op, s, k, arg, fn, e)
  /\ UNCHANGED keys

\* attribute_key.ts 80-121: AttributeKey(arg1, arg2), with or without `new`.
AttributeKey(arg1, arg2) ==
  /\ Len(keys) < MaxTokens
  /\ IF AttributeKeyThrows(arg1, arg2)
     THEN /\ keys' = keys
          /\ last' = Called("AttributeKey", 0, 0, Undefined, "none",
                            Effect(<<>>, Throw(<<"AttributeKey cannot have two names">>), 0))
     ELSE /\ keys' = Append(keys, NewKeyObject(keys, arg1, arg2))
          /\ last' = Called("AttributeKey", 0, 0, Undefined, "none",
                            Effect(<<>>, RetValue(Len(keys) + 1), 0))
  /\ UNCHANGED attrs

\* attribute_key.ts 104-118: both properties are defined with writable: false
\* and the object is frozen, so a write to a property leaves the object as it is.
FrozenWritable(obj, field, v) == [f \in DOMAIN obj |-> IF f = field THEN v ELSE obj[f]]
Frozen(obj, field, v) == obj

\* `key.name = v` or `key.symbol = v` in the code of a caller: strict code gets
\* a TypeError, other code gets nothing.
Assign(k, field, v, strict) ==
  /\ keys' = [keys EXCEPT ![k] = Frozen(keys[k], field, v)]
  /\ last' = [Called("assign", 0, 0, Undefined, field,
                     Effect(<<>>, IF strict THEN Throw(<<"TypeError">>) ELSE RetVoid, 0))
               EXCEPT !.key = k, !.again = (last.op = "assign" /\ last.key = k)]
  /\ UNCHANGED attrs

AssignStep ==
  \E k \in Refs : \E strict \in BOOLEAN :
    \/ \E v \in {JsUndefined, JsString("y")} : Assign(k, "name", v, strict)
    \/ Assign(k, "symbol", 0, strict)

Clear(s) == Call("clear", s, 0, Undefined, "none", AttrClear(attrs[s]))
Delete(s, k) == Call("delete", s, k, Undefined, "none", AttrDelete(attrs[s], k))
Get(s, k) == Call("get", s, k, Undefined, "none", AttrGet(attrs[s], k))
GetOrThrow(s, k) == Call("getOrThrow", s, k, Undefined, "none", AttrGetOrThrow(attrs[s], k))
GetOrDefault(s, k, d) ==
  Call("getOrDefault", s, k, d, "none", AttrGetOrDefault(attrs[s], k, d))
GetOrInsert(s, k, v) ==
  Call("getOrInsert", s, k, v, "none", AttrGetOrInsert(attrs[s], k, v))
GetOrInsertComputed(s, k, f) ==
  Call("getOrInsertComputed", s, k, f.v, f.kind, AttrGetOrInsertComputed(attrs[s], k, f))
Has(s, k) == Call("has", s, k, Undefined, "none", AttrHas(attrs[s], k))
Keys(s) == Call("keys", s, 0, Undefined, "none", AttrKeys(attrs[s]))
Set(s, k, v) == Call("set", s, k, v, "none", AttrSet(attrs[s], k, v))
Size(s) == Call("size", s, 0, Undefined, "none", AttrSize(attrs[s]))
ToJSON(s) == Call("toJSON", s, 0, Undefined, "none", AttrToJSON(attrs[s]))

\* attributes.ts 32-34, 200-202, 220-222: entries(), keys() and values() each
\* return a new iterator over #map. out: what the iterator has yielded so far.
Kinds == {"entries", "keys", "values"}
Iterate(s, kind) ==
  /\ Len(iters) < MaxIters
  /\ iters' = Append(iters, [store |-> s, it |-> MapIterator(kind), out |-> <<>>])
  /\ Call("iterator", s, 0, Len(iters) + 1, kind, Effect(attrs[s], RetValue(Len(iters) + 1), 0))

\* next() on the i-th iterator.
IteratorNext(i) ==
  LET o == iters[i]
      r == IterNext(attrs[o.store], o.it)
  IN /\ iters' = [iters EXCEPT ![i] =
                    [o EXCEPT !.it = r.it,
                              !.out = IF r.done THEN o.out ELSE Append(o.out, r.item)]]
     /\ Call("next", o.store, 0, i, o.it.kind, Effect(attrs[o.store], RetResult(r.done, r.item), 0))

\* iters holds the iterators returned since a map last changed: a call that
\* changes a map ends the following of the iterators returned before it.
TrackIters == iters' = IF attrs' = attrs THEN iters ELSE <<>>

\* No forEach call in progress.
NoEach ==
  [active |-> FALSE, store |-> 0, it |-> MapIterator("entries"), cb |-> "none", w |-> Undefined,
   this |-> Undefined, seen |-> <<>>, more |-> FALSE]

\* The callbacks handed to forEach: one that only reads its arguments, and the
\* ones that call a method of the store they are handed, on the key they are
\* handed: delete(key), clear(), set(key, w), or delete(key) and then
\* set(key, value).
Callbacks ==
  {[kind |-> c, w |-> Undefined] : c \in {"reads", "deletes", "clears", "reinserts"}}
    \cup {[kind |-> "overwrites", w |-> w] : w \in Values}

\* attributes.ts 80: callback.call(thisArg, value, key, this), as the callback sees it.
CallbackCallUnbound(thisArg, value, key, source) ==
  [this |-> Undefined, value |-> value, key |-> key, source |-> source]
CallbackCall(thisArg, value, key, source) ==
  [this |-> thisArg, value |-> value, key |-> key, source |-> source]

\* The map and the loop's iterator as the callback called for entry e leaves them.
CallbackRun(m, it, cb, w, e) ==
  CASE cb = "deletes" ->
         [map |-> MapDelete(m, e.key).map, it |-> IterOnDelete(it, MapIndex(m, e.key))]
    [] cb = "clears" -> [map |-> EmptyMap, it |-> IterOnClear(it)]
    [] cb = "overwrites" -> [map |-> MapSet(m, e.key, w), it |-> it]
    [] cb = "reinserts" ->
         [map |-> MapSet(MapDelete(m, e.key).map, e.key, e.value),
          it |-> IterOnDelete(it, MapIndex(m, e.key))]
    [] OTHER -> [map |-> m, it |-> it]

\* attributes.ts 70-82: forEach(callback, thisArg) is entered; the loop of line
\* 79 gets its iterator over #map.
ForEach(s, cb, thisArg) ==
  /\ ~each.active
  /\ each' = [active |-> TRUE, store |-> s, it |-> MapIterator("entries"), cb |-> cb.kind,
              w |-> cb.w, this |-> thisArg, seen |-> <<>>, more |-> FALSE]
  /\ UNCHANGED <<keys, attrs, last>>

\* attributes.ts 79-80: the iterator yields an entry and the callback is called
\* with it. seen: the calls made, the first Len(keys) of them; more: there were more.
ForEachCallback ==
  LET s == each.store
      r == IterNext(attrs[s], each.it)
      e == attrs[s][each.it.pos + 1]
      c == CallbackRun(attrs[s], r.it, each.cb, each.w, e)
  IN /\ each.active
     /\ ~r.done
     /\ attrs' = [attrs EXCEPT ![s] = c.map]
     /\ each' = [each EXCEPT
                   !.it = c.it,
                   !.seen = IF Len(each.seen) < Len(keys)
                            THEN Append(each.seen, CallbackCall(each.this, e.value, e.key, s))
                            ELSE each.seen,
                   !.more = each.more \/ Len(each.seen) >= Len(keys)]
     /\ UNCHANGED <<keys, last>>

\* attributes.ts 79-82: the iterator has ended and forEach returns.
ForEachReturn ==
  /\ each.active
  /\ IterNext(attrs[each.store], each.it).done
  /\ each' = NoEach
  /\ Call("forEach", each.store, 0, each.this, each.cb,
          Effect(attrs[each.store], RetList(each.seen), Len(each.seen)))

\* Any one method call on any instance.
StoreStep ==
  \E s \in Stores :
    \/ Clear(s)
    \/ Keys(s)
    \/ Size(s)
    \/ ToJSON(s)
    \/ \E k \in Refs :
         \/ Delete(s, k)
         \/ Get(s, k)
         \/ GetOrThrow(s, k)
         \/ Has(s, k)
         \/ \E v \in Values :
              \/ GetOrDefault(s, k, v)
              \/ GetOrInsert(s, k, v)
              \/ Set(s, k, v)
         \/ \E f \in Suppliers : GetOrInsertComputed(s, k, f)

\* The calls that change an instance, and the four reads of its state.
SharedStep ==
  \E s \in Stores :
    \/ Clear(s)
    \/ Keys(s)
    \/ Size(s)
    \/ \E k \in Refs :
         \/ Delete(s, k)
         \/ Get(s, k)
         \/ Has(s, k)
         \/ \E v \in Values : GetOrInsert(s, k, v) \/ Set(s, k, v)
         \/ \E f \in Suppliers : GetOrInsertComputed(s, k, f)

KeyStep == \E arg1 \in JsArgs, arg2 \in JsArgs : AttributeKey(arg1, arg2)

\* ------------------------------------------------------ history variables
\* passed: every reference a method of an instance was handed.
TrackPassed ==
  passed' = IF last'.key = 0 THEN passed
            ELSE [passed EXCEPT ![last'.store] = @ \cup {last'.key}]

\* invoked, supplied, disturbed, for the one instance of SpecComputed: delete(k)
\* and clear() start k afresh; getOrInsertComputed(k, f) counts the invocations
\* of f it makes, at most MaxCalls of them per key.
Observe ==
  LET c == last' IN
  /\ c.op = "getOrInsertComputed" => invoked[c.key] + c.calls <= MaxCalls
  /\ invoked' = [k \in DOMAIN invoked |->
       IF c.op = "clear" \/ (c.op = "delete" /\ c.key = k) THEN 0
       ELSE IF c.op = "getOrInsertComputed" /\ c.key = k THEN invoked[k] + c.calls
       ELSE invoked[k]]
  /\ supplied' = [k \in DOMAIN supplied |->
       IF c.op = "clear" \/ (c.op = "delete" /\ c.key = k) THEN Undefined
       ELSE IF c.op = "getOrInsertComputed" /\ c.key = k /\ c.calls > 0 /\ c.ret.t = "value"
       THEN c.ret.val
       ELSE supplied[k]]
  /\ disturbed' = [k \in DOMAIN disturbed |->
       IF c.op = "clear" \/ (c.op = "delete" /\ c.key = k) THEN FALSE
       ELSE IF c.op = "getOrInsertComputed" /\ c.key = k /\ c.ret.t = "throw" THEN TRUE
       ELSE IF c.op = "set" /\ c.key = k /\ invoked[k] > 0 THEN TRUE
       ELSE disturbed[k]]

\* removed: where each delete(k) that removed k found it.
TrackRemoved ==
  removed' = IF last'.op = "delete" /\ last'.ret.flag
             THEN [removed EXCEPT ![last'.store][last'.key] = MapIndex(attrs[last'.store], last'.key)]
             ELSE removed

\* ------------------------------------------------------ @all/reflection
\* Classes are numbers: Object is ROOT_CLASS, the classes declared are
\* 1..Len(types). types[c].parent is the class whose prototype object is the
\* [[Prototype]] of c.prototype (Null where that is null, as for `class C
\* extends null`); types[c].own says whether c.prototype has its own
\* `constructor` property, c (it has not after `C.prototype =
\* Object.create(P.prototype)`).
ROOT_CLASS == 0
Null == -1
Classes == 0..Len(types)

\* Object.getPrototypeOf(c.prototype), as the class it is the prototype object of.
GetPrototypeOf(c) == IF c = ROOT_CLASS THEN Null ELSE types[c].parent

\* p.prototype.constructor, found on the object or up its prototype chain; Null
\* where there is none (undefined).
RECURSIVE Constructor(_)
Constructor(p) ==
  IF p = Null THEN Null
  ELSE IF p = ROOT_CLASS \/ types[p].own THEN p
  ELSE Constructor(GetPrototypeOf(p))

\* Set.prototype.add on a Set kept in insertion order.
SetAdd(set, x) == IF \E i \in DOMAIN set : set[i] = x THEN set ELSE Append(set, x)

\* part_002 36-41: the loop, from `value` on with the set filled so far. `?.`
\* gives undefined for a null prototype, and undefined ends the loop.
RECURSIVE SuperclassesLoop(_, _)
SuperclassesLoop(value, superclasses) ==
  LET next == Constructor(GetPrototypeOf(value))
  IN IF next # Null /\ next # ROOT_CLASS
     THEN SuperclassesLoop(next, SetAdd(superclasses, next))
     ELSE superclasses

\* part_002 31-46
SuperclassesOfType(value) == SetAdd(SuperclassesLoop(value, <<>>), ROOT_CLASS)

\* A call superclassesOfType(value).
CallSuperclassesOfType(value) ==
  /\ walk' = [called |-> TRUE, value |-> value, ret |-> SuperclassesOfType(value)]
  /\ UNCHANGED <<keys, attrs, last, passed, invoked, supplied, disturbed, removed, each, iters,
                 types>>

\* The class declarations of a program: each class extends null, Object or a
\* class declared before it.
Hierarchies ==
  {t \in [1..MaxClasses -> [parent : Null..(MaxClasses - 1), own : BOOLEAN]] :
     \A c \in 1..MaxClasses : t[c].parent < c}

\* ---------------------------------------------------------- specifications
NoCall ==
  [op |-> "new", store |-> 0, key |-> 0, arg |-> Undefined, fn |-> "none",
   ret |-> RetVoid, calls |-> 0, had |-> FALSE, again |-> FALSE]

\* The heap after AttributeKey(name) for each name of the list in turn.
RECURSIVE HeapOf(_)
HeapOf(names) ==
  IF names = <<>> THEN <<>>
  ELSE LET heap == HeapOf(SubSeq(names, 1, Len(names) - 1))
       IN Append(heap, NewKeyObject(heap, names[Len(names)], JsUndefined))

\* `AttributeKey("x")` and then `AttributeKey()`.
TwoKeys == HeapOf(<<JsString("x"), JsUndefined>>)

\* Three keys: two of one name around an anonymous one, or the empty name, a
\* name and none.
ThreeKeys ==
  {HeapOf(<<JsString("x"), JsUndefined, JsString("x")>>),
   HeapOf(<<JsString(""), JsString("x"), JsUndefined>>)}

\* No superclassesOfType call yet.
NoWalk == [called |-> FALSE, value |-> 0, ret |-> <<>>]

\* n new Attributes instances and the keys of the heap, nothing called yet.
StartAttributes(n, heap) ==
  /\ keys = heap
  /\ attrs = [s \in 1..n |-> EmptyMap]
  /\ last = NoCall
  /\ passed = [s \in 1..n |-> {}]
  /\ invoked = [k \in DOMAIN heap |-> 0]
  /\ supplied = [k \in DOMAIN heap |-> Undefined]
  /\ disturbed = [k \in DOMAIN heap |-> FALSE]
  /\ removed = [s \in 1..n |-> [k \in DOMAIN heap |-> 0]]
  /\ each = NoEach
  /\ iters = <<>>

Start(n, heap) ==
  /\ StartAttributes(n, heap)
  /\ types = <<>>
  /\ walk = NoWalk

\* One Attributes instance; keys are constructed as the behaviour goes.
Init == Start(1, <<>>)
Next ==
  /\ KeyStep \/ StoreStep
  /\ TrackPassed
  /\ UNCHANGED <<invoked, supplied, disturbed, removed, each, iters, types, walk>>
Spec == Init /\ [][Next]_vars

\* One Attributes instance and three keys constructed beforehand.
InitStore == \E heap \in ThreeKeys : Start(1, heap)
NextStore ==
  StoreStep /\ UNCHANGED <<passed, invoked, supplied, disturbed, removed, each, iters, types, walk>>
SpecStore == InitStore /\ [][NextStore]_vars

\* Two Attributes instances sharing two keys constructed beforehand.
InitTwo == Start(2, TwoKeys)
NextTwo ==
  SharedStep /\ UNCHANGED <<passed, invoked, supplied, disturbed, removed, each, iters, types, walk>>
SpecTwo == InitTwo /\ [][NextTwo]_vars

\* One Attributes instance and two keys, with the supplier invocations counted.
InitComputed == Start(1, TwoKeys)
NextComputed ==
  StoreStep /\ Observe /\ UNCHANGED <<passed, removed, each, iters, types, walk>>
SpecComputed == InitComputed /\ [][NextComputed]_vars

\* One Attributes instance and two keys; the suppliers of getOrInsertComputed
\* include those that call back into the instance.
ReentrantStep ==
  \E s \in Stores : \E k \in Refs :
    \/ Get(s, k)
    \/ Delete(s, k)
    \/ \E v \in Values : Set(s, k, v)
    \/ \E f \in Suppliers \cup ReentrantSuppliers : GetOrInsertComputed(s, k, f)
InitReentrant == Start(1, TwoKeys)
NextReentrant ==
  /\ ReentrantStep
  /\ UNCHANGED <<passed, invoked, supplied, disturbed, removed, each, iters, types, walk>>
SpecReentrant == InitReentrant /\ [][NextReentrant]_vars

\* One Attributes instance and three keys: the calls that decide the order of
\* the entries, and keys() to read it.
OrderStep ==
  \E s \in Stores :
    \/ Clear(s)
    \/ Keys(s)
    \/ \E k \in Refs :
         \/ Delete(s, k)
         \/ \E v \in Values : Set(s, k, v)
InitOrder == Start(1, HeapOf(<<JsString("x"), JsUndefined, JsString("y")>>))
NextOrder ==
  /\ OrderStep
  /\ TrackRemoved
  /\ UNCHANGED <<passed, invoked, supplied, disturbed, each, iters, types, walk>>
SpecOrder == InitOrder /\ [][NextOrder]_vars

\* One Attributes instance and two keys: the calls that change the map, the
\* calls that return iterators, and next() on the iterators returned.
ChangeStep ==
  \E s \in Stores :
    \/ Clear(s)
    \/ \E k \in Refs :
         \/ Delete(s, k)
         \/ \E v \in Values : Set(s, k, v)
InitIter == Start(1, TwoKeys)
NextIter ==
  /\ \/ ChangeStep /\ TrackIters
     \/ \E s \in Stores : \E kind \in Kinds : Iterate(s, kind)
     \/ \E i \in DOMAIN iters : IteratorNext(i)
  /\ UNCHANGED <<passed, invoked, supplied, disturbed, removed, each, types, walk>>
SpecIter == InitIter /\ [][NextIter]_vars

\* One Attributes instance and two keys: set and delete between forEach calls,
\* and forEach with each of the callbacks. While forEach runs nothing else does,
\* and it runs on: its loop goes on to the next entry or to its end.
EachStep ==
  \/ /\ ~each.active
     /\ \E s \in Stores : \E k \in Refs : Delete(s, k) \/ \E v \in Values : Set(s, k, v)
     /\ UNCHANGED each
  \/ \E s \in Stores : \E cb \in Callbacks : \E thisArg \in Values : ForEach(s, cb, thisArg)
  \/ ForEachCallback
  \/ ForEachReturn
InitEach == Start(1, TwoKeys)
NextEach ==
  /\ EachStep
  /\ UNCHANGED <<passed, invoked, supplied, disturbed, removed, iters, types, walk>>
\* The loop of a forEach call that was entered: the next step of lines 79-82.
EachLoop ==
  /\ ForEachCallback \/ ForEachReturn
  /\ UNCHANGED <<passed, invoked, supplied, disturbed, removed, iters, types, walk>>
SpecEach == InitEach /\ [][NextEach]_vars /\ WF_vars(EachLoop)

\* One Attributes instance; keys are constructed as the behaviour goes, are
\* written to, and are used in set, get, delete, clear, getOrInsert, toJSON and
\* forEach.
TokenStep ==
  \/ /\ ~each.active
     /\ \/ KeyStep
        \/ AssignStep
        \/ \E s \in Stores :
             \/ Clear(s)
             \/ ToJSON(s)
             \/ \E k \in Refs :
                  \/ Delete(s, k)
                  \/ Get(s, k)
                  \/ \E v \in Values : GetOrInsert(s, k, v) \/ Set(s, k, v)
     /\ UNCHANGED each
  \/ \E s \in Stores : \E cb \in Callbacks : ForEach(s, cb, Undefined)
  \/ ForEachCallback
  \/ ForEachReturn
InitToken == Start(1, <<>>)
NextToken ==
  /\ TokenStep
  /\ UNCHANGED <<passed, invoked, supplied, disturbed, removed, iters, types, walk>>
SpecToken == InitToken /\ [][NextToken]_vars

\* The classes of a program and the calls of superclassesOfType on them.
InitTypes ==
  /\ StartAttributes(1, <<>>)
  /\ types \in Hierarchies
  /\ walk = NoWalk
NextTypes == \E value \in Classes : CallSuperclassesOfType(value)
SpecTypes == InitTypes /\ [][NextTypes]_vars

\* ------------------------------------------------------------------ claims
\* What the methods would answer in the current state.
HasNow(s, k) == AttrHas(attrs[s], k).ret.flag
GetNow(s, k) == AttrGet(attrs[s], k).ret.val
SizeNow(s) == AttrSize(attrs[s]).ret.val
KeysNow(s) == AttrKeys(attrs[s]).ret.list
\* The same, in the state a step leads to.
HasNext(s, k) == AttrHas(attrs'[s], k).ret.flag
GetNext(s, k) == AttrGet(attrs'[s], k).ret.val
SizeNext(s) == AttrSize(attrs'[s]).ret.val
KeysNext(s) == AttrKeys(attrs'[s]).ret.list

\* C1: a key that no method of an instance was ever handed is absent from it:
\* has(B) is false and get(B) is undefined, whatever was set under other keys,
\* a key of the same name (or equally anonymous) included.
C1_KeyUniqueness ==
  \A s \in Stores : \A B \in Refs :
    B \notin passed[s] => ~HasNow(s, B) /\ GetNow(s, B) = Undefined

\* C1 witness: set(A, v) was performed, A and B are two keys of one name, and B
\* was never handed to the instance.
C1_Witness ==
  \E s \in Stores : \E A \in Refs, B \in Refs :
    /\ A # B /\ HasName(A) /\ KeyName(A) = KeyName(B)
    /\ last.op = "set" /\ last.store = s /\ last.key = A /\ last.arg # Undefined
    /\ HasNow(s, A) /\ B \notin passed[s]

\* C2: set(k, v2) right after set(k, v1) on the same instance: get(k) is v2, size
\* is what it was after the first set, and no key has two entries.
C2_OverwriteInPlace ==
  [][(/\ last.op = "set" /\ last'.op = "set"
      /\ last'.store = last.store /\ last'.key = last.key)
     => /\ GetNext(last'.store, last'.key) = last'.arg
        /\ SizeNext(last'.store) = SizeNow(last.store)
        /\ \A i \in DOMAIN attrs'[last'.store], j \in DOMAIN attrs'[last'.store] :
             attrs'[last'.store][i].key = attrs'[last'.store][j].key => i = j]_vars

\* C2 witness: a second set in a row on a key, which the first had made present.
C2_Witness ==
  /\ last.op = "set" /\ last.again /\ last.had
  /\ last.arg # Undefined /\ GetNow(last.store, last.key) = last.arg
  /\ SizeNow(last.store) > 1

\* C3: getOrDefault(k, d) leaves the instance as it was (has, size, order of the
\* keys, every value) and returns the stored value if k is present, d if not;
\* so a second call on the still absent key returns its own default.
C3_GetOrDefaultNonPersistent ==
  [][last'.op = "getOrDefault"
     => LET s == last'.store
            k == last'.key
        IN /\ HasNext(s, k) = HasNow(s, k)
           /\ SizeNext(s) = SizeNow(s)
           /\ KeysNext(s) = KeysNow(s)
           /\ \A j \in Refs : GetNext(s, j) = GetNow(s, j)
           /\ last'.ret = RetValue(IF HasNow(s, k) THEN GetNow(s, k) ELSE last'.arg)
           /\ (last.op = "getOrDefault" /\ last.store = s /\ last.key = k /\ ~last.had)
                => last'.ret = RetValue(last'.arg)]_vars

\* C3 witness: a second getOrDefault in a row on an absent key returned its
\* default, and the key is still absent.
C3_Witness ==
  /\ last.op = "getOrDefault" /\ last.again /\ ~last.had
  /\ last.arg # Undefined /\ last.ret = RetValue(last.arg)
  /\ ~HasNow(last.store, last.key)
  /\ SizeNow(last.store) > 0

\* C4: getOrInsert(k, v) on an absent key returns v, and then has(k) is true and
\* get(k) is v; on a key present with w it returns w and w stays stored.
C4_GetOrInsertPersistent ==
  [][last'.op = "getOrInsert"
     => LET s == last'.store
            k == last'.key
        IN IF ~HasNow(s, k)
           THEN /\ last'.ret = RetValue(last'.arg)
                /\ HasNext(s, k)
                /\ GetNext(s, k) = last'.arg
           ELSE /\ last'.ret = RetValue(GetNow(s, k))
                /\ HasNext(s, k)
                /\ GetNext(s, k) = GetNow(s, k)]_vars

\* C4 witness: getOrInsert stored its value under a key that was absent.
C4_Witness ==
  /\ last.op = "getOrInsert" /\ ~last.had
  /\ last.arg # Undefined /\ last.ret = RetValue(last.arg)
  /\ HasNow(last.store, last.key) /\ GetNow(last.store, last.key) = last.arg

\* The condition both readings of C5 share: the supplier runs once on a miss
\* and not at all on a hit.
OncePerMiss == last.op = "getOrInsertComputed" => last.calls = (IF last.had THEN 0 ELSE 1)

Embeds(msg, name) == \E i \in DOMAIN msg : msg[i] = name

\* C6: getOrThrow(k) returns the stored value of a present key; on an absent key
\* it throws the "not found" error, whose message embeds the key's name if the
\* key has one; either way the instance is left as it was.
C6_GetOrThrow ==
  [][last'.op = "getOrThrow"
     => LET s == last'.store
            k == last'.key
        IN /\ attrs' = attrs
           /\ IF HasNow(s, k)
              THEN last'.ret = RetValue(GetNow(s, k))
              ELSE /\ last'.ret.t = "throw"
                   /\ Embeds(last'.ret.msg, " not found")
                   /\ HasName(k) => Embeds(last'.ret.msg, KeyName(k).v)]_vars

\* C6 witness: getOrThrow failed on an absent key named "x", other keys being present.
C6_Witness ==
  /\ last.op = "getOrThrow" /\ last.ret.t = "throw"
  /\ KeyName(last.key) = JsString("x")
  /\ Embeds(last.ret.msg, "x")
  /\ ~HasNow(last.store, last.key) /\ SizeNow(last.store) > 0

\* The entries of instance s whose key has the name n, by position.
Named(s, n) == {i \in DOMAIN attrs[s] : KeyName(attrs[s][i].key) = JsString(n)}
Latest(S) == CHOOSE i \in S : \A j \in S : j <= i

\* C7: toJSON() returns a record with one field per name of a stored named key,
\* none for the anonymous keys, each field holding the value of the latest entry
\* in insertion order whose key has that name; it leaves the instance as it was.
C7_ToJSON ==
  \A s \in Stores :
    LET obj == AttrToJSON(attrs[s]).ret.obj
    IN /\ AttrToJSON(attrs[s]).map = attrs[s]
       /\ ObjFields(obj) =
            {KeyName(attrs[s][i].key).v : i \in {j \in DOMAIN attrs[s] : HasName(attrs[s][j].key)}}
       /\ \A i \in DOMAIN obj, j \in DOMAIN obj : obj[i].name = obj[j].name => i = j
       /\ \A n \in ObjFields(obj) : ObjGet(obj, n) = attrs[s][Latest(Named(s, n))].value
       /\ (last.op = "toJSON" /\ last.store = s) => last.ret = RetObject(obj)

\* C7 witness: toJSON() was called with two keys named "x" stored with different
\* values and an anonymous key stored between them.
C7_Witness ==
  /\ last.op = "toJSON"
  /\ \E i \in DOMAIN attrs[last.store], j \in DOMAIN attrs[last.store],
        a \in DOMAIN attrs[last.store] :
       /\ i < a /\ a < j
       /\ KeyName(attrs[last.store][i].key) = JsString("x")
       /\ KeyName(attrs[last.store][j].key) = JsString("x")
       /\ ~HasName(attrs[last.store][a].key)
       /\ attrs[last.store][i].value # attrs[last.store][j].value
       /\ last.ret.obj = <<[name |-> "x", value |-> attrs[last.store][j].value]>>

\* The sequence without the elements equal to k.
Without(seq, k) == SelectSeq(seq, LAMBDA x : x # k)

\* C8: delete(k) returns whether k was present; afterwards k is absent, size is
\* one less if it was present and the same if not, and the other keys keep
\* their values and their order.
C8_Delete ==
  [][last'.op = "delete"
     => LET s == last'.store
            k == last'.key
        IN /\ last'.ret = RetBoolean(HasNow(s, k))
           /\ ~HasNext(s, k)
           /\ SizeNext(s) = SizeNow(s) - (IF HasNow(s, k) THEN 1 ELSE 0)
           /\ KeysNext(s) = Without(KeysNow(s), k)
           /\ \A j \in Refs \ {k} :
                HasNext(s, j) = HasNow(s, j) /\ GetNext(s, j) = GetNow(s, j)]_vars

\* C8 witness: delete removed a key and two others remain.
C8_Witness ==
  /\ last.op = "delete" /\ last.had /\ last.ret = RetBoolean(TRUE)
  /\ ~HasNow(last.store, last.key) /\ SizeNow(last.store) = 2

\* C9: a call on one instance leaves every other instance as it was: its map,
\* and with it, for set, delete, clear, getOrInsert and getOrInsertComputed,
\* what has and get answer for every key, size and the order of the keys.
Mutators == {"set", "delete", "clear", "getOrInsert", "getOrInsertComputed"}
C9_StoreIndependence ==
  [][\A s \in Stores \ {last'.store} :
       /\ attrs'[s] = attrs[s]
       /\ last'.op \in Mutators
            => /\ SizeNext(s) = SizeNow(s)
               /\ KeysNext(s) = KeysNow(s)
               /\ \A k \in Refs :
                    HasNext(s, k) = HasNow(s, k) /\ GetNext(s, k) = GetNow(s, k)]_vars

\* C9 witness: a call changed a shared key in one instance while the other
\* instance holds the same key with another value.
C9_Witness ==
  \E s \in Stores \ {last.store} :
    /\ last.op \in {"set", "getOrInsert", "getOrInsertComputed"}
    /\ HasNow(last.store, last.key) /\ HasNow(s, last.key)
    /\ GetNow(last.store, last.key) = last.arg
    /\ GetNow(s, last.key) # GetNow(last.store, last.key)

\* C10: size is the number of keys has() answers true for and the number of
\* keys keys() yields, and it is 0 right after clear().
C10_SizeConsistency ==
  \A s \in Stores :
    /\ SizeNow(s) = Cardinality({k \in Refs : HasNow(s, k)})
    /\ SizeNow(s) = Len(KeysNow(s))
    /\ (last.op = "size" /\ last.store = s) => last.ret = RetNumber(SizeNow(s))
    /\ (last.op = "clear" /\ last.store = s) => SizeNow(s) = 0

\* C10 witness: size was read and answered 2, with a third key constructed and
\* absent, the two present keys stored against their order of construction.
C10_Witness ==
  /\ last.op = "size" /\ last.ret = RetNumber(Len(attrs[last.store]))
  /\ SizeNow(last.store) > 1
  /\ \E k \in Refs : ~HasNow(last.store, k)
  /\ attrs[last.store][1].key > attrs[last.store][Len(attrs[last.store])].key

\* C11: AttributeKey(arg1, arg2) throws its TypeError exactly when both
\* arguments are strings, constructing nothing; with any other arguments it
\* returns a new key whose name is the one string argument, or undefined when
\* neither is a string, and it calls no function it was handed.
C11_Construction ==
  [][\A arg1 \in JsArgs, arg2 \in JsArgs :
       AttributeKey(arg1, arg2)
         => /\ last'.calls = 0
            /\ IF TypeOf(arg1) = "string" /\ TypeOf(arg2) = "string"
               THEN /\ last'.ret = Throw(<<"AttributeKey cannot have two names">>)
                    /\ keys' = keys
               ELSE /\ last'.ret = RetValue(Len(keys) + 1)
                    /\ Len(keys') = Len(keys) + 1
                    /\ SubSeq(keys', 1, Len(keys)) = keys
                    /\ \A a \in {arg1, arg2} :
                         TypeOf(a) = "string" => keys'[Len(keys')].name = a
                    /\ (\A a \in {arg1, arg2} : TypeOf(a) # "string")
                         => keys'[Len(keys')].name = JsUndefined]_vars

\* C11 witness: after an anonymous key, a second key was constructed and got the
\* name "y"; AttributeKey(String, "y") and AttributeKey("y", String) both do so.
C11_Witness ==
  /\ last.op = "AttributeKey" /\ last.ret = RetValue(2) /\ last.calls = 0
  /\ Len(keys) = 2 /\ ~HasName(1) /\ KeyName(2) = JsString("y")
  /\ keys[1].symbol # keys[2].symbol

\* C13: set(k, v) on a present key k leaves the order of the keys and every
\* other value as they were and makes get(k) = v; so with two present keys A and
\* C of one name, A stored before C, toJSON() after set(A, v) still reports C's
\* value under that name.
C13_OverwriteKeepsPosition ==
  [][(last'.op = "set" /\ HasNow(last'.store, last'.key))
     => LET s == last'.store
            A == last'.key
        IN /\ KeysNext(s) = KeysNow(s)
           /\ GetNext(s, A) = last'.arg
           /\ \A j \in Refs \ {A} : GetNext(s, j) = GetNow(s, j)
           /\ \A C \in Refs \ {A} :
                (/\ HasName(A) /\ KeyName(C) = KeyName(A) /\ HasNow(s, C)
                 /\ MapIndex(attrs[s], A) < MapIndex(attrs[s], C))
                  => ObjGet(AttrToJSON(attrs'[s]).ret.obj, KeyName(A).v) = GetNow(s, C)]_vars

\* C13 witness: set(A, v) was called on A, present and stored before C of the
\* same name, with a value other than C's; A is still stored before C.
C13_Witness ==
  \E C \in Refs \ {last.key} :
    /\ last.op = "set" /\ last.had /\ HasName(last.key)
    /\ KeyName(C) = KeyName(last.key) /\ HasNow(last.store, C)
    /\ MapIndex(attrs[last.store], last.key) < MapIndex(attrs[last.store], C)
    /\ GetNow(last.store, last.key) = last.arg
    /\ GetNow(last.store, C) # last.arg
    /\ ObjGet(AttrToJSON(attrs[last.store]).ret.obj, KeyName(C).v) = GetNow(last.store, C)

\* Instance s holds an entry for k whose value is undefined.
HoldsUndefined(s, k) ==
  \E i \in DOMAIN attrs[s] : attrs[s][i].key = k /\ attrs[s][i].value = Undefined

\* C19: while k is stored with the value undefined, has(k) answers true, size
\* counts k's entry, getOrThrow(k) returns undefined, and getOrDefault(k, d),
\* getOrInsert(k, v) and getOrInsertComputed(k, f) return undefined, store
\* nothing and do not invoke f.
C19_PresenceByMembership ==
  [][\A s \in Stores : \A k \in Refs :
       (HoldsUndefined(s, k) /\ last'.store = s)
         => /\ (last'.op = "has" /\ last'.key = k) => last'.ret = RetBoolean(TRUE)
            /\ last'.op = "size"
                 => last'.ret = RetNumber(Cardinality({attrs[s][i].key : i \in DOMAIN attrs[s]}))
            /\ (last'.op \in {"getOrThrow", "getOrDefault", "getOrInsert", "getOrInsertComputed"}
                  /\ last'.key = k)
                 => /\ last'.ret = RetValue(Undefined)
                    /\ last'.calls = 0
                    /\ attrs' = attrs]_vars

\* C19 witness: getOrInsertComputed(k, f), f returning a defined value, found k
\* stored with undefined: it returned undefined and did not invoke f.
C19_Witness ==
  /\ last.op = "getOrInsertComputed" /\ last.fn = "returns" /\ last.arg # Undefined
  /\ last.had /\ last.calls = 0 /\ last.ret = RetValue(Undefined)
  /\ HoldsUndefined(last.store, last.key)
  /\ SizeNow(last.store) = 2

\* C20: a getOrInsertComputed(k, f) that returns v leaves get(k) = v, whether f
\* only returns v or first calls set(k, w), delete(k) or clear() on the same
\* instance; on a present key f is not invoked and the stored value is returned.
\* If f throws, the call throws and itself stores nothing: the map is as f
\* left it, so k is absent unless f had stored it.
C20_ComputedPostcondition ==
  [][\A s \in Stores : \A k \in Refs :
     \A f \in {g \in Suppliers \cup ReentrantSuppliers : g.kind = last'.fn /\ g.v = last'.arg} :
       GetOrInsertComputed(s, k, f)
         => IF HasNow(s, k)
            THEN /\ last'.calls = 0
                 /\ last'.ret = RetValue(GetNow(s, k))
                 /\ GetNext(s, k) = last'.ret.val
                 /\ attrs' = attrs
            ELSE /\ last'.calls = 1
                 /\ IF f.kind \in {"throws", "setsThrows"}
                    THEN /\ last'.ret.t = "throw"
                         /\ \A j \in Refs \ {k} :
                              HasNext(s, j) = HasNow(s, j) /\ GetNext(s, j) = GetNow(s, j)
                         /\ IF f.kind = "throws"
                            THEN ~HasNext(s, k)
                            ELSE HasNext(s, k) /\ GetNext(s, k) = f.w
                    ELSE /\ last'.ret = RetValue(f.v)
                         /\ HasNext(s, k)
                         /\ GetNext(s, k) = f.v
                         /\ Cardinality({i \in DOMAIN attrs'[s] : attrs'[s][i].key = k}) = 1]_vars

\* C20 witness: getOrInsertComputed(k, f) on an absent k invoked a supplier that
\* called set or clear on the instance, returned the supplier's value and left
\* that value stored under k.
C20_Witness ==
  /\ last.op = "getOrInsertComputed" /\ last.fn \in {"sets", "clears"}
  /\ ~last.had /\ last.calls = 1 /\ last.arg # Undefined
  /\ last.ret = RetValue(last.arg)
  /\ GetNow(last.store, last.key) = last.arg

\* C14: set(k, v) on a key that delete(k) had removed and that is absent puts k
\* after every key present: the order of the keys is the order before with k
\* appended. So with K1, K2, K3 stored in that order, delete(K2) and then
\* set(K2, v) leave the order K1, K3, K2.
C14_ReinsertAtEnd ==
  [][(/\ last'.op = "set"
      /\ removed[last'.store][last'.key] # 0
      /\ ~HasNow(last'.store, last'.key))
     => LET s == last'.store
            K2 == last'.key
        IN /\ KeysNext(s) = Append(KeysNow(s), K2)
           /\ \A j \in Refs \ {K2} : GetNext(s, j) = GetNow(s, j)
           /\ \A K1 \in Refs, K3 \in Refs :
                (KeysNow(s) = <<K1, K3>> /\ last.op = "delete" /\ last.key = K2)
                  => KeysNext(s) = <<K1, K3, K2>>]_vars

\* C14 witness: keys() answers K1, K3, K2 after set(K2, v) put back the K2 that
\* delete(K2) had removed from between K1 and K3.
C14_Witness ==
  /\ last.op = "keys" /\ last.ret = RetList(<<1, 3, 2>>)
  /\ removed[last.store][2] = 2
  /\ removed[last.store][1] = 0 /\ removed[last.store][3] = 0

\* The entries now in instance s, each as a traversal of the kind presents it.
Presented(s, kind) ==
  [j \in DOMAIN attrs[s] |->
     CASE kind = "entries" -> <<attrs[s][j].key, attrs[s][j].value>>
       [] kind = "keys" -> <<attrs[s][j].key>>
       [] kind = "values" -> <<attrs[s][j].value>>]

\* C16: while the map is unchanged, each iterator returned by entries(), keys()
\* or values() has yielded the first so many of the current entries in insertion
\* order, whatever the other iterators have done, and has ended only after all
\* of them; what keys() and values() iterators yield are the first and the
\* second components of what an entries() iterator yields; and next() on one
\* iterator yields its own next entry, or ends it, and leaves the others alone.
C16_FreshTraversals ==
  /\ [](\A i \in DOMAIN iters :
          LET o == iters[i]
              all == Presented(o.store, o.it.kind)
          IN /\ Len(o.out) <= Len(all)
             /\ o.out = SubSeq(all, 1, Len(o.out))
             /\ o.it.done => o.out = all
             /\ \A j \in DOMAIN iters :
                  (iters[j].store = o.store /\ o.it.kind = "entries")
                    => \A n \in DOMAIN iters[j].out :
                         n \in DOMAIN o.out
                           => /\ iters[j].it.kind = "keys" => iters[j].out[n] = <<o.out[n][1]>>
                              /\ iters[j].it.kind = "values" => iters[j].out[n] = <<o.out[n][2]>>)
  /\ [][last'.op = "next"
          => LET i == last'.arg
                 o == iters[i]
                 all == Presented(o.store, o.it.kind)
             IN /\ last'.ret = IF Len(o.out) < Len(all)
                               THEN RetResult(FALSE, all[Len(o.out) + 1])
                               ELSE RetResult(TRUE, <<>>)
                /\ \A j \in DOMAIN iters \ {i} : iters'[j] = iters[j]
                /\ attrs' = attrs]_vars

\* C16 witness: with two entries stored, an entries() iterator and a values()
\* iterator from two calls have both been run to their end, each having yielded
\* both entries, the values differing from the keys.
C16_Witness ==
  /\ Len(iters) = 2 /\ last.op = "next" /\ last.ret = RetResult(TRUE, <<>>)
  /\ iters[1].it.kind = "entries" /\ iters[1].it.done /\ Len(iters[1].out) = 2
  /\ iters[2].it.kind = "values" /\ iters[2].it.done /\ Len(iters[2].out) = 2
  /\ iters[2].out[1] # <<iters[1].out[1][1]>>
  /\ iters[2].out[1] = <<iters[1].out[1][2]>>

\* C15: a forEach(callback, thisArg) whose callback only reads has, when it
\* returns, called the callback once for each entry of the map, in insertion
\* order, with thisArg as its receiver and (value, key, the instance) as its
\* arguments, and has left the map as it was.
C15_ForEach ==
  (last.op = "forEach" /\ last.fn = "reads" /\ ~each.active)
    => LET m == attrs[last.store]
       IN /\ last.calls = Len(m)
          /\ last.ret = RetList([i \in DOMAIN m |->
                                  [this |-> last.arg, value |-> m[i].value,
                                   key |-> m[i].key, source |-> last.store]])

\* C15 witness: forEach returned from a map of two entries, the key constructed
\* second stored first, having been given a thisArg and a reading callback.
C15_Witness ==
  /\ last.op = "forEach" /\ last.fn = "reads" /\ ~each.active
  /\ last.arg # Undefined /\ last.calls = 2
  /\ KeysNow(last.store) = <<2, 1>>
  /\ last.ret.list[1].key = 2 /\ last.ret.list[1].this = last.arg
  /\ last.ret.list[1].value # last.ret.list[2].value

\* C17, as claimed: every forEach call returns, whatever its callback does as
\* long as the callback returns.
C17_TerminationAsClaimed == each.active ~> ~each.active

\* C17, amended: a forEach call whose callback puts no new entry into the map
\* (it reads, overwrites, deletes or clears) returns, after no more callback
\* calls than the instance can hold entries; the traversal of its loop, the one
\* entries() returns, has passed no more entries than the map holds.
C17_Termination ==
  /\ (each.active /\ each.cb # "reinserts") ~> ~each.active
  /\ [](each.cb # "reinserts" => ~each.more)
  /\ [](each.active => each.it.pos <= Len(attrs[each.store]))

\* C17 witness: forEach has returned after its callback deleted, one call after
\* the other, both entries of the map under the loop.
C17_Witness ==
  /\ last.op = "forEach" /\ last.fn = "deletes" /\ ~each.active
  /\ last.calls = 2 /\ SizeNow(last.store) = 0

\* C12: every step leaves every key constructed so far as it is, its symbol and
\* its name: the calls of set, get, delete, clear, getOrInsert, toJSON and
\* forEach, the construction of further keys, and the writes to a key's name
\* or symbol, whether they throw or pass in silence.
C12_Immutability ==
  [][/\ Len(keys') >= Len(keys)
     /\ \A k \in Refs : keys'[k].symbol = keys[k].symbol /\ keys'[k].name = keys[k].name]_vars

\* C12 witness: a write to the name of a key named "x", stored in the instance
\* with a value, has been attempted; the key is named "x" still.
C12_Witness ==
  /\ last.op = "assign" /\ last.fn = "name" /\ last.ret = RetVoid
  /\ KeyName(last.key) = JsString("x")
  /\ \E s \in Stores : HasNow(s, last.key) /\ GetNow(s, last.key) # Undefined

\* The proper ancestors of class c, nearest first: the classes whose prototype
\* objects are on the prototype chain of c.prototype.
RECURSIVE Ancestors(_)
Ancestors(c) ==
  IF c = ROOT_CLASS \/ types[c].parent = Null THEN <<>>
  ELSE <<types[c].parent>> \o Ancestors(types[c].parent)

\* C18, as claimed: the set superclassesOfType(C) returns holds Object and every
\* proper ancestor of C, a nearer ancestor before a farther one, and not C.
C18_SuperclassesAsClaimed ==
  walk.called
    => LET C == walk.value
           up == Ancestors(C)
           at(x) == CHOOSE i \in DOMAIN walk.ret : walk.ret[i] = x
       IN /\ \E i \in DOMAIN walk.ret : walk.ret[i] = ROOT_CLASS
          /\ \A n \in DOMAIN up : \E i \in DOMAIN walk.ret : walk.ret[i] = up[n]
          /\ \A n \in DOMAIN up, o \in DOMAIN up : n < o => at(up[n]) < at(up[o])
          /\ \A i \in DOMAIN walk.ret : walk.ret[i] # C

====
